---- MODULE Spec2Model ----
(***************************************************************************)
(* A model of the RAG pipeline orchestration of upfall_project:            *)
(*   - ChatService (chat.service.ts): two-phase initialization             *)
(*     (onModuleInit), the compiled retrieve -> generate graph, chat().    *)
(*   - IngestionService (ingestion.service.ts): load -> split -> store.    *)
(* External collaborators (Chroma, the retriever, the LLM, the PDF loader) *)
(* are modelled by the outcomes their promises can settle with.            *)
(***************************************************************************)
EXTENDS Integers, Sequences, FiniteSets, TLC

\* ------------------------------------------------------------------ bounds
MaxCalls == 2       \* chat() invocations
MaxInits == 2       \* onModuleInit() runs
MaxRuns  == 2       \* runIngestion() runs

Calls == 1..MaxCalls
Runs  == 1..MaxRuns

\* ------------------------------------------------------- program constants
COLLECTION_NAME   == "test_collection_name"
VECTOR_STORE_PATH == "chroma_data"
chunkSize    == 1000
chunkOverlap == 200
TopK == 4           \* asRetriever() with no arguments: the library default k
Placeholder  == "could-not-generate-an-answer"
NotInitialized == "Chat graph not initialized."

\* ---------------------------------------------------------------- the text
\* Text is symbolic: a slice [source, from, len] of a source text.  A document
\* page is the whole slice of itself, a chunk is a slice of its page, and a
\* literal string is the whole slice of itself.
Slice(src, from, len) == [source |-> src, from |-> from, len |-> len]
Lit(s, n) == Slice(s, 0, n)
BlankLine == Lit("\n\n", 2)

\* Faulty variant: the separator appended after every piece, the last too.
RECURSIVE JoinTrailingSeparator(_, _)
JoinTrailingSeparator(pieces, sep) ==
  IF Len(pieces) = 0 THEN << >>
  ELSE << pieces[1], sep >> \o JoinTrailingSeparator(Tail(pieces), sep)

\* Array.prototype.join over the documents' pageContent: the pieces in the
\* order given, the separator between every two of them.
RECURSIVE Join(_, _)
Join(pieces, sep) ==
  IF Len(pieces) = 0 THEN << >>
  ELSE IF Len(pieces) = 1 THEN << pieces[1] >>
  ELSE << pieces[1], sep >> \o Join(Tail(pieces), sep)

\* ragChain's first step: the prompt variables computed from a RAGState.
PromptInput(state) ==
  [ context  |-> Join(state.documents, BlankLine),
    question |-> state.question ]

NoPrompt == [ context |-> << >>, question |-> "" ]

VARIABLES
  \* ChatService fields
  retriever,      \* "null" or the collection the retriever is bound to
  graph,          \* [compiled, edges]: this.graph
  model,          \* this.model, set by the constructor
  \* onModuleInit
  initPc,         \* "idle" | "binding" | "bound" | "done" | "failed"
  initCount,      \* onModuleInit runs started
  initDone,       \* onModuleInit runs completed
  \* chat invocations
  inv,            \* per invocation: position, locals and history
  rag,            \* the RAGState object of each state slot
  \* the vector collection (shared by ingestion and chat)
  store,
  \* ingestion runs
  run

vars == << retriever, graph, model, initPc, initCount, initDone, inv, rag,
           store, run >>

\* ------------------------------------------------------------ ChatService
START == "__start__"
END   == "__end__"
Nodes == { START, "retrieve", "generate", END }

Questions  == { "q1", "q2" }
LLMOutputs == { "", "Paris" }       \* the chain's parsed output; may be empty

\* constructor(): this.model
ModelClient == [ modelName |-> "gpt-3.5-turbo-instruct", temperature |-> 0 ]

NoGraph == [ compiled |-> FALSE, edges |-> {} ]

\* Faulty variant: the two nodes wired in the opposite order.
GraphEdgesGenerateFirst ==
  { << START, "generate" >>, << "generate", "retrieve" >>, << "retrieve", END >> }

\* Faulty variant: retrieve wired straight to END.
GraphEdgesNoGenerate ==
  { << START, "retrieve" >>, << "retrieve", END >> }

\* The edges initializeGraph adds to the builder.
GraphEdges ==
  { << START, "retrieve" >>, << "retrieve", "generate" >>, << "generate", END >> }

\* graphBuilder.compile(): the runnable that walks the builder's edges.
Compile(edges) == [ compiled |-> TRUE, edges |-> edges ]

\* The node the compiled graph runs after node n.
\* A node without an outgoing edge ends the run.
NextNode(g, n) ==
  IF \E m \in Nodes : << n, m >> \in g.edges
  THEN CHOOSE m \in Nodes : << n, m >> \in g.edges
  ELSE END

\* Faulty variant: initializeRetriever() not awaited.
Phase2NoAwait == initPc \in { "binding", "bound" }

\* Faulty variant: the rejection of initializeRetriever() is caught and
\* initializeGraph() runs all the same.
Phase2AfterFailure == initPc \in { "bound", "failed" }

\* onModuleInit: initializeGraph() runs in the continuation of
\* `await this.initializeRetriever()`.
Phase2Ready == initPc = "bound"

\* Faulty variant: chat() guarded by the retriever instead of the graph.
RetrieverReady == retriever # "null"

\* Faulty variant: chat() guarded by a flag that is down while
\* onModuleInit() runs.
InitNotRunning == graph.compiled /\ initPc = "done"

\* chat(): the guard `if (!this.graph) throw`.
GraphReady == graph.compiled

\* chat(): the RAGState literal built for every call.
FreshState(q) == [ question |-> q, documents |-> << >>, answer |-> "" ]

\* Faulty variant: one state object kept by the service and reused by every call.
SharedSlot(i) == 1

\* chat(): initialState is a local of the call, so each invocation has a
\* state object of its own.
StateSlot(i) == i

\* Faulty variant: the answer returned as it is.
ChatResultRaw(answer) == answer

\* chat(): `result.answer || placeholder`.
ChatResult(answer) == IF answer = "" THEN Placeholder ELSE answer

\* Faulty variant: the node catches the error and the graph moves on.
NodeFailedSwallowed(c, err) ==
  [ c EXCEPT !.pc = "running",
             !.error = err,
             !.node = IF c.node = "retrieve" THEN "generate" ELSE END ]

\* The nodes and chat() hold no try/catch: a rejected await rejects the
\* node, graph.invoke and then chat() itself.
NodeFailed(c, err) == [ c EXCEPT !.pc = "failed", !.error = err ]

\* Faulty variant: a new state built without spreading the old one.
RetrieveNodeNoSpread(state, docs) ==
  [ question |-> state.question, documents |-> docs, answer |-> "" ]

\* nodes.retrieve: `return { ...state, documents: docs }`.
RetrieveNode(state, docs) == [ state EXCEPT !.documents = docs ]

\* Faulty variant: `state.answer || answer`, an answer already there is kept.
GenerateNodeKeepsPrior(state, out) ==
  [ state EXCEPT !.answer = IF state.answer # "" THEN state.answer ELSE out ]

\* nodes.generate: `return { ...state, answer: answer }`.
GenerateNode(state, out) == [ state EXCEPT !.answer = out ]

\* retriever.invoke(question): the ranked lists a similarity search over the
\* collection can return, at most TopK entries, no entry twice.
Rankings(s) ==
  LET n == Len(s)
      k == IF n < TopK THEN n ELSE TopK
  IN  { [ j \in 1..k |-> s[f[j]] ] :
          f \in { g \in [1..k -> 1..n] :
                    \A a, b \in 1..k : a # b => g[a] # g[b] } }

\* How far initialization has got: "ready" once an onModuleInit() has
\* completed, else the position of the run in progress.
InitPhase == IF initDone > 0 THEN "ready" ELSE initPc

IdleCall ==
  [ pc       |-> "idle",    \* idle | running | awaitRetriever | awaitLLM |
                            \* returned | failed
    question |-> "",        \* the argument of chat()
    node     |-> START,     \* the node the graph runs next
    result   |-> "",        \* the string chat() resolved with
    error    |-> "",        \* the error the invocation met
    \* history
    phaseAtStart |-> "idle",\* InitPhase when chat() was called
    nodeIn   |-> FreshState(""), \* the `state` argument of the running node
    trace    |-> << >>,     \* node events of this invocation
    retQ     |-> "",        \* the query the retriever was invoked with
    retDocs  |-> << >>,     \* the list the retriever resolved with
    genRead  |-> << >>,     \* state.documents as read by generate
    prompt   |-> NoPrompt,  \* the prompt variables handed to the chain
    llmOut   |-> "" ]       \* the string the chain resolved with

\* --- onModuleInit --------------------------------------------------------

\* onModuleInit() is called: initializeRetriever() suspends in
\* Chroma.fromExistingCollection.
OnModuleInit ==
  /\ initPc \in { "idle", "done", "failed" }
  /\ initCount < MaxInits
  /\ initPc' = "binding"
  /\ initCount' = initCount + 1
  /\ UNCHANGED << retriever, graph, model, initDone, inv, rag, store, run >>

\* fromExistingCollection resolves: this.retriever = vectorStore.asRetriever().
InitializeRetrieverResolve ==
  /\ initPc = "binding"
  /\ retriever' = COLLECTION_NAME
  /\ initPc' = "bound"
  /\ UNCHANGED << graph, model, initCount, initDone, inv, rag, store, run >>

\* fromExistingCollection rejects: onModuleInit rejects at its await.
InitializeRetrieverReject ==
  /\ initPc = "binding"
  /\ initPc' = "failed"
  /\ UNCHANGED << retriever, graph, model, initCount, initDone, inv, rag,
                  store, run >>

\* initializeGraph(): synchronous; onModuleInit resolves right after it.
InitializeGraph ==
  /\ Phase2Ready
  /\ graph' = Compile(GraphEdges)
  /\ initPc' = "done"
  /\ initDone' = initDone + 1
  /\ UNCHANGED << retriever, model, initCount, inv, rag, store, run >>

\* --- chat ----------------------------------------------------------------

\* chat(question) up to its await of graph.invoke.
Chat(i, q) ==
  /\ inv[i].pc = "idle"
  /\ LET c == [ inv[i] EXCEPT !.question = q, !.phaseAtStart = InitPhase ]
     IN  IF ~GraphReady
         THEN /\ inv' = [ inv EXCEPT ![i] =
                            [ c EXCEPT !.pc = "failed",
                                       !.error = NotInitialized ] ]
              /\ rag' = rag
         ELSE /\ inv' = [ inv EXCEPT ![i] =
                            [ c EXCEPT !.pc = "running",
                                       !.node = NextNode(graph, START) ] ]
              /\ rag' = [ rag EXCEPT ![StateSlot(i)] = FreshState(q) ]
  /\ UNCHANGED << retriever, graph, model, initPc, initCount, initDone,
                  store, run >>

\* nodes.retrieve up to `await this.retriever.invoke(state.question)`.
RetrieveCall(i) ==
  /\ inv[i].pc = "running"
  /\ inv[i].node = "retrieve"
  /\ LET state == rag[StateSlot(i)]
         c == [ inv[i] EXCEPT !.trace = Append(@, "retrieve"),
                              !.nodeIn = state ]
     IN  IF retriever = "null"
         THEN inv' = [ inv EXCEPT ![i] = NodeFailed(c, "TypeError") ]
         ELSE inv' = [ inv EXCEPT ![i] =
                         [ c EXCEPT !.pc = "awaitRetriever",
                                    !.retQ = state.question ] ]
  /\ UNCHANGED << retriever, graph, model, initPc, initCount, initDone,
                  rag, store, run >>

\* Faulty variant: retrieve throws when the retriever found nothing.
RetrieveResolveRejectsEmpty(i, docs) ==
  /\ inv[i].pc = "awaitRetriever"
  /\ docs \in Rankings(store)
  /\ IF docs = << >>
     THEN /\ rag' = rag
          /\ inv' = [ inv EXCEPT ![i] =
                        NodeFailed([ @ EXCEPT !.retDocs = docs ], "NoDocuments") ]
     ELSE /\ rag' = [ rag EXCEPT ![StateSlot(i)] =
                        RetrieveNode(inv[i].nodeIn, docs) ]
          /\ inv' = [ inv EXCEPT ![i] =
                        [ @ EXCEPT !.pc = "running",
                                   !.node = NextNode(graph, "retrieve"),
                                   !.retDocs = docs,
                                   !.trace = Append(@, "retrieve.done") ] ]
  /\ UNCHANGED << retriever, graph, model, initPc, initCount, initDone,
                  store, run >>

\* The retriever resolves: `return { ...state, documents: docs }`.
RetrieveResolve(i, docs) ==
  /\ inv[i].pc = "awaitRetriever"
  /\ docs \in Rankings(store)
  /\ rag' = [ rag EXCEPT ![StateSlot(i)] = RetrieveNode(inv[i].nodeIn, docs) ]
  /\ inv' = [ inv EXCEPT ![i] =
                [ @ EXCEPT !.pc = "running",
                           !.node = NextNode(graph, "retrieve"),
                           !.retDocs = docs,
                           !.trace = Append(@, "retrieve.done") ] ]
  /\ UNCHANGED << retriever, graph, model, initPc, initCount, initDone,
                  store, run >>

\* The retriever rejects.
RetrieveReject(i) ==
  /\ inv[i].pc = "awaitRetriever"
  /\ inv' = [ inv EXCEPT ![i] = NodeFailed(@, "RetrieverError") ]
  /\ UNCHANGED << retriever, graph, model, initPc, initCount, initDone,
                  rag, store, run >>

\* nodes.generate up to `await ragChain.invoke({...})`.
GenerateCall(i) ==
  /\ inv[i].pc = "running"
  /\ inv[i].node = "generate"
  /\ LET state == rag[StateSlot(i)]
         input == [ question  |-> state.question,
                    documents |-> state.documents,
                    answer    |-> state.answer ]
     IN  inv' = [ inv EXCEPT ![i] =
                    [ @ EXCEPT !.pc = "awaitLLM",
                               !.nodeIn = state,
                               !.genRead = state.documents,
                               !.prompt = PromptInput(input),
                               !.trace = Append(@, "generate") ] ]
  /\ UNCHANGED << retriever, graph, model, initPc, initCount, initDone,
                  rag, store, run >>

\* The chain resolves: `return { ...state, answer: answer }`.
GenerateResolve(i, out) ==
  /\ inv[i].pc = "awaitLLM"
  /\ out \in LLMOutputs
  /\ rag' = [ rag EXCEPT ![StateSlot(i)] = GenerateNode(inv[i].nodeIn, out) ]
  /\ inv' = [ inv EXCEPT ![i] =
                [ @ EXCEPT !.pc = "running",
                           !.node = NextNode(graph, "generate"),
                           !.llmOut = out,
                           !.trace = Append(@, "generate.done") ] ]
  /\ UNCHANGED << retriever, graph, model, initPc, initCount, initDone,
                  store, run >>

\* The chain rejects.
GenerateReject(i) ==
  /\ inv[i].pc = "awaitLLM"
  /\ inv' = [ inv EXCEPT ![i] = NodeFailed(@, "LLMError") ]
  /\ UNCHANGED << retriever, graph, model, initPc, initCount, initDone,
                  rag, store, run >>

\* The graph reached END: graph.invoke resolves with the final state and
\* chat() returns `result.answer || placeholder`.
ChatReturn(i) ==
  /\ inv[i].pc = "running"
  /\ inv[i].node = END
  /\ inv' = [ inv EXCEPT ![i] =
                [ @ EXCEPT !.pc = "returned",
                           !.result = ChatResult(rag[StateSlot(i)].answer) ] ]
  /\ UNCHANGED << retriever, graph, model, initPc, initCount, initDone,
                  rag, store, run >>

ChatStep ==
  \E i \in Calls :
    \/ \E q \in Questions : Chat(i, q)
    \/ RetrieveCall(i)
    \/ \E docs \in Rankings(store) : RetrieveResolve(i, docs)
    \/ RetrieveReject(i)
    \/ GenerateCall(i)
    \/ \E out \in LLMOutputs : GenerateResolve(i, out)
    \/ GenerateReject(i)
    \/ ChatReturn(i)

\* ------------------------------------------------------- IngestionService
\* Pages the PDF loader can yield: a long page, a short page, or none.
PageA == Slice("A", 0, 1800)
PageB == Slice("B", 0, 600)
LoaderResults == { << >>, << PageB >>, << PageA, PageB >> }

\* RecursiveCharacterTextSplitter on a text without separators: windows of
\* chunkSize characters, each starting chunkOverlap characters before the end
\* of the previous one; the last window takes what is left.
RECURSIVE ChunksFrom(_, _)
ChunksFrom(page, start) ==
  IF page.len - start <= chunkSize
  THEN << Slice(page.source, page.from + start, page.len - start) >>
  ELSE << Slice(page.source, page.from + start, chunkSize) >>
         \o ChunksFrom(page, start + chunkSize - chunkOverlap)

SplitText(page) == IF page.len = 0 THEN << >> ELSE ChunksFrom(page, 0)

\* splitter.splitDocuments(docs): the chunks of every page, in page order.
RECURSIVE SplitDocuments(_)
SplitDocuments(docs) ==
  IF Len(docs) = 0 THEN << >>
  ELSE SplitText(Head(docs)) \o SplitDocuments(Tail(docs))

\* runIngestion: `this.splitDocuments(docs)`.
SplitArg(c) == c.docs

\* Faulty variant: the unsplit pages handed to the store.
StoreArgDocs(c) == c.docs

\* runIngestion: `this.embedAndStore(splitDocs)`.
StoreArg(c) == c.splitDocs

\* Faulty variant: the pages counted instead of the chunks.
SummaryCountsPages(c) == [ chunks |-> Len(c.docs), path |-> VECTOR_STORE_PATH ]

\* runIngestion: the summary string's variable parts.
Summary(c) == [ chunks |-> Len(c.splitDocs), path |-> VECTOR_STORE_PATH ]

NoSummary == [ chunks |-> -1, path |-> "" ]

IdleRun ==
  [ pc        |-> "idle",   \* idle | loading | splitting | storing | done |
                            \* failed
    docs      |-> << >>,    \* runIngestion's local `docs`
    splitDocs |-> << >>,    \* runIngestion's local `splitDocs`
    result    |-> NoSummary,\* what runIngestion resolved with
    error     |-> "",       \* what runIngestion rejected with
    \* history
    events    |-> << >>,    \* the steps begun and ended, in order
    loaderOut |-> << >>,    \* what the loader resolved with
    splitIn   |-> << >>,    \* what the splitter was called with
    splitOut  |-> << >>,    \* what the splitter resolved with
    storeIn   |-> << >>,    \* what Chroma.fromDocuments was called with
    wrote     |-> 0 ]       \* entries this run added to the collection

InFlight(r) == run[r].pc \in { "loading", "splitting", "storing" }

\* GET /ingest -> runIngestion() up to `await pdfLoader.load()`.
RunIngestion(r) ==
  /\ run[r].pc = "idle"
  /\ run' = [ run EXCEPT ![r] =
                [ @ EXCEPT !.pc = "loading",
                           !.events = Append(@, "load") ] ]
  /\ UNCHANGED << retriever, graph, model, initPc, initCount, initDone,
                  inv, rag, store >>

\* The loader resolves; splitDocuments(docs) suspends in the splitter.
LoadResolve(r, pages) ==
  /\ run[r].pc = "loading"
  /\ pages \in LoaderResults
  /\ LET c == [ run[r] EXCEPT !.docs = pages, !.loaderOut = pages ]
     IN  run' = [ run EXCEPT ![r] =
                    [ c EXCEPT !.pc = "splitting",
                               !.splitIn = SplitArg(c),
                               !.events = @ \o << "load.done", "split" >> ] ]
  /\ UNCHANGED << retriever, graph, model, initPc, initCount, initDone,
                  inv, rag, store >>

\* The loader rejects: runIngestion rejects at its first await.
LoadReject(r) ==
  /\ run[r].pc = "loading"
  /\ run' = [ run EXCEPT ![r] =
                [ @ EXCEPT !.pc = "failed", !.error = "LoadError" ] ]
  /\ UNCHANGED << retriever, graph, model, initPc, initCount, initDone,
                  inv, rag, store >>

\* The splitter resolves; embedAndStore(splitDocs) suspends in
\* Chroma.fromDocuments.
SplitResolve(r) ==
  /\ run[r].pc = "splitting"
  /\ LET out == SplitDocuments(run[r].splitIn)
         c == [ run[r] EXCEPT !.splitDocs = out, !.splitOut = out ]
     IN  run' = [ run EXCEPT ![r] =
                    [ c EXCEPT !.pc = "storing",
                               !.storeIn = StoreArg(c),
                               !.events = @ \o << "split.done", "store" >> ] ]
  /\ UNCHANGED << retriever, graph, model, initPc, initCount, initDone,
                  inv, rag, store >>

\* Faulty variant: the collection is emptied before the entries are added.
StoreReplaced(s, batch) == batch

\* Chroma.fromDocuments(docs, ...): no ids are passed and nothing is deleted,
\* so the entries are added after what the collection holds.
StoreAfterWrite(s, batch) == s \o batch

\* Faulty variant: a failed write removes what it had added.
StoreRolledBack(s, batch, k) == s

\* embedAndStore awaits Chroma.fromDocuments without try/catch or cleanup:
\* the k entries the store committed before the rejection stay.
StoreAfterReject(s, batch, k) == s \o SubSeq(batch, 1, k)

\* Chroma.fromDocuments resolves: every entry was added to the collection;
\* runIngestion returns its summary.
StoreResolve(r) ==
  /\ run[r].pc = "storing"
  /\ store' = StoreAfterWrite(store, run[r].storeIn)
  /\ run' = [ run EXCEPT ![r] =
                [ @ EXCEPT !.pc = "done",
                           !.wrote = Len(run[r].storeIn),
                           !.result = Summary(run[r]),
                           !.events = @ \o << "store.done", "return" >> ] ]
  /\ UNCHANGED << retriever, graph, model, initPc, initCount, initDone,
                  inv, rag >>

\* Chroma.fromDocuments rejects after the store committed k entries: nothing
\* is undone and runIngestion rejects.
StoreReject(r, k) ==
  /\ run[r].pc = "storing"
  /\ k \in 0..Len(run[r].storeIn)
  /\ store' = StoreAfterReject(store, run[r].storeIn, k)
  /\ run' = [ run EXCEPT ![r] =
                [ @ EXCEPT !.pc = "failed",
                           !.wrote = k,
                           !.error = "StoreError" ] ]
  /\ UNCHANGED << retriever, graph, model, initPc, initCount, initDone,
                  inv, rag >>

\* ---------------------------------------------------------- specifications
\* The collection as it is when the process starts: empty, or holding the
\* chunks of an earlier ingestion of PageA.
InitialStores == { << >>, SplitDocuments(<< PageA >>) }

Init ==
  /\ retriever = "null"
  /\ graph = NoGraph
  /\ model = ModelClient
  /\ initPc = "idle"
  /\ initCount = 0
  /\ initDone = 0
  /\ inv = [ i \in Calls |-> IdleCall ]
  /\ rag = [ i \in Calls |-> FreshState("") ]
  /\ store \in InitialStores
  /\ run = [ r \in Runs |-> IdleRun ]

\* The chat service: initialization and chat traffic against a collection.
Next ==
  \/ OnModuleInit
  \/ InitializeRetrieverResolve
  \/ InitializeRetrieverReject
  \/ InitializeGraph
  \/ \E i \in Calls, q \in Questions : Chat(i, q)
  \/ \E i \in Calls : RetrieveCall(i)
  \/ \E i \in Calls : \E docs \in Rankings(store) : RetrieveResolve(i, docs)
  \/ \E i \in Calls : RetrieveReject(i)
  \/ \E i \in Calls : GenerateCall(i)
  \/ \E i \in Calls, out \in LLMOutputs : GenerateResolve(i, out)
  \/ \E i \in Calls : GenerateReject(i)
  \/ \E i \in Calls : ChatReturn(i)

Spec == Init /\ [][Next]_vars

\* The ingestion service: runs triggered by GET /ingest.
IngestNext ==
  \/ \E r \in Runs : RunIngestion(r)
  \/ \E r \in Runs, pages \in LoaderResults : LoadResolve(r, pages)
  \/ \E r \in Runs : LoadReject(r)
  \/ \E r \in Runs : SplitResolve(r)
  \/ \E r \in Runs : StoreResolve(r)
  \/ \E r \in Runs : \E k \in 0..Len(run[r].storeIn) : StoreReject(r, k)

IngestSpec == Init /\ [][IngestNext]_vars

\* The graph nodes as functions of their `state` argument: one invocation
\* stands at the entry of retrieve or of generate with any RAGState, and the
\* node (then the rest of the graph) runs on it.
ChunkA1 == SplitText(PageA)[1]
ChunkA2 == SplitText(PageA)[2]

DocLists ==
  { << >>, << ChunkA1 >>, << ChunkA2, ChunkA1 >>, << ChunkA1, ChunkA1 >>,
    << ChunkA1, ChunkA2, ChunkA1 >> }

NodeInputs ==
  [ question : Questions, documents : DocLists, answer : LLMOutputs \cup { "stale" } ]

NodeInit ==
  /\ retriever = COLLECTION_NAME
  /\ graph = Compile(GraphEdges)
  /\ model = ModelClient
  /\ initPc = "done"
  /\ initCount = 1
  /\ initDone = 1
  /\ store \in InitialStores
  /\ run = [ r \in Runs |-> IdleRun ]
  /\ \E st \in NodeInputs, n \in { "retrieve", "generate" } :
       /\ rag = [ i \in Calls |-> IF i = 1 THEN st ELSE FreshState("") ]
       /\ inv = [ i \in Calls |->
                    IF i = 1
                    THEN [ IdleCall EXCEPT !.pc = "running",
                                           !.node = n,
                                           !.question = st.question,
                                           !.phaseAtStart = "ready" ]
                    ELSE IdleCall ]

NodeNext ==
  \/ \E i \in Calls : RetrieveCall(i)
  \/ \E i \in Calls : \E docs \in Rankings(store) : RetrieveResolve(i, docs)
  \/ \E i \in Calls : RetrieveReject(i)
  \/ \E i \in Calls : GenerateCall(i)
  \/ \E i \in Calls, out \in LLMOutputs : GenerateResolve(i, out)
  \/ \E i \in Calls : GenerateReject(i)
  \/ \E i \in Calls : ChatReturn(i)

NodeSpec == NodeInit /\ [][NodeNext]_vars

\* ------------------------------------------------------------- properties
Has(seq, e) == \E k \in 1..Len(seq) : seq[k] = e

FullTrace == << "retrieve", "retrieve.done", "generate", "generate.done" >>

\* C1: a chat() call made before any onModuleInit() has completed is
\* rejected with the not-initialized error: it runs no node and never
\* resolves with a string, whether it arrived before initialization began,
\* while the retriever was being bound, or after it was bound and before the
\* graph was compiled.
C1_ChatBeforeInitFails ==
  \A i \in Calls :
    (inv[i].pc # "idle" /\ inv[i].phaseAtStart # "ready") =>
      /\ inv[i].pc = "failed"
      /\ inv[i].error = NotInitialized
      /\ inv[i].result = ""
      /\ inv[i].trace = << >>

\* One call arrived while phase 1 was suspended and another between the two
\* phases; both were rejected.
C1_Witness ==
  \E i, j \in Calls :
    /\ inv[i].phaseAtStart = "binding" /\ inv[i].error = NotInitialized
    /\ inv[j].phaseAtStart = "bound" /\ inv[j].error = NotInitialized

\* C2: within an invocation generate starts only after retrieve has
\* completed, and the documents generate reads are the list the retriever of
\* this invocation resolved with (possibly the empty list).
C2_RetrieveBeforeGenerate ==
  \A i \in Calls :
    \A k \in 1..Len(inv[i].trace) :
      inv[i].trace[k] = "generate" =>
        /\ \E j \in 1..(k - 1) : inv[i].trace[j] = "retrieve.done"
        /\ inv[i].genRead = inv[i].retDocs
        /\ inv[i].retQ = inv[i].question

\* generate is waiting on the chain with the two documents retrieve found.
C2_Witness ==
  \E i \in Calls :
    /\ inv[i].pc = "awaitLLM"
    /\ Len(inv[i].genRead) = 2
    /\ inv[i].genRead = inv[i].retDocs

\* C3 as stated: a chat() that returned ran retrieve once, then generate
\* once, and returned the string generate produced.
C3_Original ==
  \A i \in Calls :
    inv[i].pc = "returned" =>
      /\ inv[i].trace = FullTrace
      /\ inv[i].result = inv[i].llmOut

\* C3 amended: a chat() that returned ran retrieve once, then generate once
\* (one retriever call, one chain call), and returned the string generate
\* produced, or the placeholder when generate produced the empty string.
C3_RetrieveGenerateOnce ==
  \A i \in Calls :
    inv[i].pc = "returned" =>
      /\ inv[i].trace = FullTrace
      /\ inv[i].node = END
      /\ inv[i].llmOut # "" => inv[i].result = inv[i].llmOut
      /\ inv[i].llmOut = "" => inv[i].result = Placeholder

\* A call returned the non-empty string its generate step produced.
C3_Witness ==
  \E i \in Calls :
    /\ inv[i].pc = "returned"
    /\ inv[i].llmOut = "Paris"
    /\ inv[i].result = "Paris"

\* C4: chat() starts the graph on a fresh state {question, no documents,
\* empty answer}; it returns the final state's answer when that is not
\* empty and the placeholder when it is, so it never returns "".
C4_FreshStateAndPlaceholder ==
  \A i \in Calls :
    /\ (inv[i].pc = "running" /\ inv[i].trace = << >>) =>
         rag[StateSlot(i)] =
           [ question |-> inv[i].question, documents |-> << >>, answer |-> "" ]
    /\ inv[i].pc = "returned" =>
         /\ rag[StateSlot(i)].answer # "" =>
              inv[i].result = rag[StateSlot(i)].answer
         /\ rag[StateSlot(i)].answer = "" => inv[i].result = Placeholder
         /\ inv[i].result # ""

\* The graph ended with an empty answer and chat() returned the placeholder.
C4_Witness ==
  \E i \in Calls :
    /\ inv[i].pc = "returned"
    /\ rag[StateSlot(i)].answer = ""
    /\ inv[i].result = Placeholder

\* C5 as stated: a run whose loader yielded no document fails; it returns no
\* summary and adds nothing to the collection.
C5_EmptySourceFails ==
  \A r \in Runs :
    (Has(run[r].events, "load.done") /\ run[r].loaderOut = << >>) =>
      /\ run[r].pc # "done"
      /\ run[r].result = NoSummary
      /\ run[r].wrote = 0

\* C6: a rejected retriever call or chain call ends the invocation where it
\* is: no node runs after it (generate never runs after a retrieve failure),
\* the graph stays at the node that failed, chat() rejects with that error
\* and resolves with nothing, and a failed invocation never moves again.
C6_NodeFailureAborts ==
  /\ [](\A i \in Calls :
          inv[i].error \in { "RetrieverError", "LLMError" } =>
            /\ inv[i].pc = "failed"
            /\ inv[i].result = ""
            /\ inv[i].error = "RetrieverError" =>
                 /\ inv[i].trace = << "retrieve" >>
                 /\ inv[i].node = "retrieve"
                 /\ rag[StateSlot(i)].documents = << >>
            /\ inv[i].error = "LLMError" =>
                 /\ inv[i].trace = << "retrieve", "retrieve.done", "generate" >>
                 /\ inv[i].node = "generate"
                 /\ rag[StateSlot(i)].answer = "")
  /\ [][\A i \in Calls :
          inv[i].pc = "failed" =>
            /\ inv'[i] = inv[i]
            /\ rag'[StateSlot(i)] = rag[StateSlot(i)]]_vars

\* One invocation failed in retrieve and another in generate.
C6_Witness ==
  \E i, j \in Calls :
    /\ inv[i].pc = "failed" /\ inv[i].error = "RetrieverError"
    /\ inv[j].pc = "failed" /\ inv[j].error = "LLMError"

\* C7: the graph is compiled only in the continuation of the retriever
\* binding, so a compiled graph always comes with a bound retriever.
C7_CompiledImpliesRetriever ==
  /\ [](graph.compiled => retriever # "null")
  /\ [][initDone' # initDone => (initPc = "bound" /\ retriever # "null")]_vars

\* The graph is compiled, and a later initialization is binding again.
C7_Witness ==
  /\ graph.compiled
  /\ retriever = COLLECTION_NAME
  /\ initPc = "binding"

\* C8: concurrent invocations never share a RAGState: the state of each
\* holds its own question, the documents its own retriever call resolved
\* with and the answer its own chain call resolved with; the retriever is
\* queried with its question and the prompt is built from its question and
\* documents; and no step of chat() writes the graph, the retriever or the
\* model client.
C8_IndependentStates ==
  /\ [](\A i \in Calls :
          /\ inv[i].pc \in { "running", "awaitRetriever", "awaitLLM",
                             "returned" } =>
               /\ rag[StateSlot(i)].question = inv[i].question
               /\ rag[StateSlot(i)].documents = inv[i].retDocs
               /\ rag[StateSlot(i)].answer = inv[i].llmOut
          /\ Has(inv[i].trace, "retrieve") => inv[i].retQ = inv[i].question
          /\ Has(inv[i].trace, "generate") =>
               /\ inv[i].prompt.question = inv[i].question
               /\ inv[i].prompt.context = Join(inv[i].retDocs, BlankLine)
          /\ inv[i].pc = "returned" =>
               inv[i].result = ChatResult(inv[i].llmOut))
  /\ [][ChatStep => UNCHANGED << retriever, graph, model >>]_vars

\* Two invocations with different questions are in flight at once, one at
\* the chain call and one at the retriever call.
C8_Witness ==
  \E i, j \in Calls :
    /\ inv[i].pc = "awaitLLM"
    /\ inv[j].pc = "awaitRetriever"
    /\ inv[i].question # inv[j].question
    /\ Len(inv[i].retDocs) = 2

\* C9 as stated: no two ingestion runs are in flight at the same time.
C9_OneRunInFlight ==
  \A r1, r2 \in Runs : (InFlight(r1) /\ InFlight(r2)) => r1 = r2

\* C10: within a run the steps happen in the order load, split, store; the
\* splitter is given what the loader returned, the store what the splitter
\* returned, and the summary is returned only after the store write ended.
StepOrder ==
  << "load", "load.done", "split", "split.done", "store", "store.done",
     "return" >>

C10_StepsSequential ==
  \A r \in Runs :
    /\ Len(run[r].events) <= Len(StepOrder)
    /\ run[r].events = SubSeq(StepOrder, 1, Len(run[r].events))
    /\ Has(run[r].events, "split") => run[r].splitIn = run[r].loaderOut
    /\ Has(run[r].events, "store") => run[r].storeIn = run[r].splitOut
    /\ run[r].result # NoSummary =>
         /\ run[r].pc = "done"
         /\ Has(run[r].events, "store.done")
         /\ run[r].wrote = Len(run[r].storeIn)

\* A run is done after splitting two pages into three chunks and storing
\* them.
C10_Witness ==
  \E r \in Runs :
    /\ run[r].pc = "done"
    /\ Len(run[r].loaderOut) = 2
    /\ Len(run[r].storeIn) = 3
    /\ run[r].result.chunks = 3

\* C11: a rejected load or store write ends the run as failed with that
\* error and without a summary; a failed load has written nothing, and a
\* failed store write leaves in the collection, after what was there, exactly
\* the entries the store had committed; nothing of it is removed later.
C11_FailureSurfacesNoRollback ==
  /\ [](\A r \in Runs :
          /\ run[r].error # "" =>
               /\ run[r].pc = "failed"
               /\ run[r].result = NoSummary
          /\ run[r].pc = "failed" => run[r].error \in { "LoadError", "StoreError" }
          /\ run[r].error = "LoadError" =>
               /\ run[r].wrote = 0
               /\ run[r].events = << "load" >>)
  /\ [][\A r \in Runs :
          /\ (run[r].pc = "storing" /\ run'[r].pc = "failed") =>
               /\ run'[r].error = "StoreError"
               /\ Len(store') = Len(store) + run'[r].wrote
               /\ SubSeq(store', 1, Len(store)) = store
               /\ SubSeq(store', Len(store) + 1, Len(store')) =
                    SubSeq(run[r].storeIn, 1, run'[r].wrote)
          /\ run[r].pc = "failed" =>
               /\ run'[r] = run[r]
               /\ Len(store') >= Len(store)
               /\ SubSeq(store', 1, Len(store)) = store]_vars

\* A store write failed after committing one of three chunks, which is in
\* the collection; another run failed at the load step.
C11_Witness ==
  \E r1, r2 \in Runs :
    /\ run[r1].error = "StoreError"
    /\ Len(run[r1].storeIn) = 3
    /\ run[r1].wrote = 1
    /\ Len(store) >= 1
    /\ store[Len(store)] = run[r1].storeIn[1]
    /\ run[r2].error = "LoadError"

\* C12: once an onModuleInit() has completed, running it again (whether the
\* second run is binding, bound, done or failed at phase 1) leaves the
\* service ready: the retriever is bound to the same collection and the
\* graph is the compiled retrieve -> generate graph; a chat() called from
\* then on is never rejected as not initialized and never finds the
\* retriever missing.
C12_InitializeIdempotent ==
  /\ initDone >= 1 =>
       /\ retriever = COLLECTION_NAME
       /\ graph.compiled
       /\ graph.edges = { << START, "retrieve" >>, << "retrieve", "generate" >>,
                          << "generate", END >> }
  /\ \A i \in Calls :
       (inv[i].pc # "idle" /\ inv[i].phaseAtStart = "ready") =>
         /\ inv[i].error \notin { NotInitialized, "TypeError" }
         /\ inv[i].pc = "failed" => inv[i].error \in { "RetrieverError", "LLMError" }

\* The second onModuleInit() is binding the retriever again while one chat()
\* called after the first run waits for the retriever and another has
\* returned.
C12_Witness ==
  /\ initDone = 1
  /\ initCount = 2
  /\ initPc = "binding"
  /\ \E i, j \in Calls :
       /\ inv[i].pc = "awaitRetriever"
       /\ inv[j].pc = "returned"

Last(seq) == seq[Len(seq)]

\* C14: for every state retrieve is called with, the retriever is queried
\* with that state's question, and the state retrieve returns has the list
\* the retriever resolved with as documents and the question and answer it
\* was called with.
C14_RetrieveFrame ==
  \A i \in Calls :
    /\ (inv[i].trace # << >> /\ Last(inv[i].trace) = "retrieve"
          /\ inv[i].pc = "awaitRetriever") =>
         /\ inv[i].retQ = inv[i].nodeIn.question
         /\ rag[StateSlot(i)] = inv[i].nodeIn
    /\ (inv[i].trace # << >> /\ Last(inv[i].trace) = "retrieve.done") =>
         /\ rag[StateSlot(i)].documents = inv[i].retDocs
         /\ rag[StateSlot(i)].question = inv[i].nodeIn.question
         /\ rag[StateSlot(i)].answer = inv[i].nodeIn.answer

\* retrieve ran on a state that held an answer and three documents: the
\* documents are now the two the retriever found, the answer is still there.
C14_Witness ==
  \E i \in Calls :
    /\ inv[i].trace = << "retrieve", "retrieve.done" >>
    /\ inv[i].nodeIn.answer = "stale"
    /\ Len(inv[i].nodeIn.documents) = 3
    /\ Len(rag[StateSlot(i)].documents) = 2
    /\ rag[StateSlot(i)].answer = "stale"

\* C15: for every state generate is called with, the prompt variables are
\* built from that state's question and documents, and the state generate
\* returns has the string the chain resolved with as answer, whatever the
\* answer was before, and the question and documents it was called with.
C15_GenerateFrame ==
  \A i \in Calls :
    /\ Has(inv[i].trace, "generate") =>
         /\ inv[i].prompt.question = inv[i].nodeIn.question
         /\ inv[i].prompt.context = Join(inv[i].nodeIn.documents, BlankLine)
         /\ inv[i].genRead = inv[i].nodeIn.documents
    /\ (inv[i].trace # << >> /\ Last(inv[i].trace) = "generate"
          /\ inv[i].pc = "awaitLLM") =>
         rag[StateSlot(i)] = inv[i].nodeIn
    /\ Has(inv[i].trace, "generate.done") =>
         /\ rag[StateSlot(i)].answer = inv[i].llmOut
         /\ rag[StateSlot(i)].question = inv[i].nodeIn.question
         /\ rag[StateSlot(i)].documents = inv[i].nodeIn.documents

\* generate ran on a state that already held an answer: the answer is now
\* the string the chain produced.
C15_Witness ==
  \E i \in Calls :
    /\ Has(inv[i].trace, "generate.done")
    /\ inv[i].nodeIn.answer = "stale"
    /\ inv[i].llmOut = "Paris"
    /\ rag[StateSlot(i)].answer = "Paris"
    /\ Len(rag[StateSlot(i)].documents) = 3

\* C16: when the retriever resolves with the empty list the invocation does
\* not fail for it: retrieve completes, the graph goes on to generate, which
\* runs with an empty context, and chat() returns what generate produced (or
\* the placeholder); the only error such an invocation can end with is a
\* rejected chain call.
C16_EmptyRetrievalNotAnError ==
  \A i \in Calls :
    (inv[i].pc \notin { "idle", "awaitRetriever" } /\ inv[i].retQ # ""
       /\ inv[i].error # "RetrieverError" /\ inv[i].retDocs = << >>) =>
      /\ Has(inv[i].trace, "retrieve.done")
      /\ inv[i].error \in { "", "LLMError" }
      /\ inv[i].pc = "running" => inv[i].node \in { "generate", END }
      /\ inv[i].node = END => Has(inv[i].trace, "generate.done")
      /\ Has(inv[i].trace, "generate") =>
           /\ inv[i].genRead = << >>
           /\ inv[i].prompt.context = << >>
      /\ inv[i].pc = "returned" =>
           /\ inv[i].trace = FullTrace
           /\ inv[i].result = ChatResult(inv[i].llmOut)

\* The retriever found nothing, generate ran with an empty context and
\* chat() returned the answer.
C16_Witness ==
  \E i \in Calls :
    /\ inv[i].pc = "returned"
    /\ inv[i].trace = FullTrace
    /\ inv[i].retDocs = << >>
    /\ inv[i].prompt.context = << >>
    /\ inv[i].result = "Paris"

\* C17: the context handed to the prompt is the texts of the documents
\* generate read, every one of them, in their order, repeated ones included,
\* with one blank line between every two and none before or after; the
\* question handed to the prompt is the state's question.
C17_ContextInRankOrder ==
  \A i \in Calls :
    Has(inv[i].trace, "generate") =>
      LET d == inv[i].genRead
          c == inv[i].prompt.context
      IN  /\ Len(c) = (IF Len(d) = 0 THEN 0 ELSE 2 * Len(d) - 1)
          /\ \A k \in 1..Len(d) : c[2 * k - 1] = d[k]
          /\ \A k \in 1..(Len(d) - 1) :
               c[2 * k] = [ source |-> "\n\n", from |-> 0, len |-> 2 ]
          /\ d = inv[i].nodeIn.documents
          /\ inv[i].prompt.question = inv[i].nodeIn.question
          /\ inv[i].prompt.question = inv[i].question

\* generate read three documents, the first and the last the same chunk:
\* the context holds all three, in that order, with two separators.
C17_Witness ==
  \E i \in Calls :
    /\ inv[i].pc = "awaitLLM"
    /\ inv[i].genRead = << ChunkA1, ChunkA2, ChunkA1 >>
    /\ Len(inv[i].prompt.context) = 5
    /\ inv[i].prompt.context[1] = inv[i].prompt.context[5]
    /\ inv[i].prompt.context[3] = ChunkA2

Count(seq, e) == Cardinality({ k \in 1..Len(seq) : seq[k] = e })

RECURSIVE WroteUpTo(_)
WroteUpTo(n) == IF n = 0 THEN 0 ELSE run[n].wrote + WroteUpTo(n - 1)

\* C18: no step of an ingestion run removes or changes an entry of the
\* collection: every step leaves what was there in place and at most adds
\* after it, so the collection holds what it held at the start followed by
\* everything the runs wrote; two completed runs over the same pages leave
\* every chunk of those pages in the collection at least twice.
C18_AppendOnly ==
  /\ [](/\ Len(store) >= WroteUpTo(MaxRuns)
        /\ SubSeq(store, 1, Len(store) - WroteUpTo(MaxRuns)) \in InitialStores
        /\ \A r1, r2 \in Runs :
             (r1 # r2 /\ run[r1].pc = "done" /\ run[r2].pc = "done"
                /\ run[r1].loaderOut = run[r2].loaderOut) =>
               \A k \in 1..Len(run[r1].storeIn) :
                 Count(store, run[r1].storeIn[k]) >= 2)
  /\ [][/\ Len(store') >= Len(store)
        /\ SubSeq(store', 1, Len(store)) = store]_vars

\* The collection held the two chunks of PageA; two runs then each stored
\* the three chunks of PageA and PageB, so it holds eight entries and the
\* first chunk of PageA three times.
C18_Witness ==
  \E r1, r2 \in Runs :
    /\ r1 # r2
    /\ run[r1].pc = "done" /\ run[r2].pc = "done"
    /\ run[r1].wrote = 3 /\ run[r2].wrote = 3
    /\ run[r1].loaderOut = run[r2].loaderOut
    /\ Len(store) = 8
    /\ Count(store, ChunkA1) = 3

\* C19: the chunk count in the summary of a completed run is the number of
\* chunks the splitter returned in that run and the number of chunks handed
\* to the store write, all of which were written.
C19_ReportedChunkCount ==
  \A r \in Runs :
    run[r].pc = "done" =>
      /\ run[r].result.chunks = Len(run[r].splitOut)
      /\ run[r].result.chunks = Len(run[r].storeIn)
      /\ run[r].result.chunks = run[r].wrote
      /\ run[r].result.path = "chroma_data"

\* A run over two pages reported three chunks; another over one page
\* reported one.
C19_Witness ==
  \E r1, r2 \in Runs :
    /\ run[r1].pc = "done" /\ Len(run[r1].docs) = 2 /\ run[r1].result.chunks = 3
    /\ run[r2].pc = "done" /\ Len(run[r2].docs) = 1 /\ run[r2].result.chunks = 1

\* C20: when the binding of the retriever is rejected, onModuleInit() ends
\* rejected without running initializeGraph(): the graph and the retriever
\* are as they were, nothing but a new onModuleInit() moves the
\* initialization on, and while no onModuleInit() has succeeded the graph is
\* not compiled and every chat() is rejected as not initialized.
C20_FailedBindingSkipsCompile ==
  /\ []((initPc = "failed" /\ initDone = 0) =>
          (~graph.compiled /\ retriever = "null"))
  /\ [](\A i \in Calls :
          (inv[i].pc # "idle" /\ inv[i].phaseAtStart = "failed") =>
            /\ inv[i].pc = "failed"
            /\ inv[i].error = NotInitialized
            /\ inv[i].result = "")
  /\ [][(initPc = "binding" /\ initPc' = "failed") =>
          (graph' = graph /\ retriever' = retriever /\ initDone' = initDone)]_vars
  /\ [][initPc = "failed" =>
          /\ graph' = graph
          /\ initDone' = initDone
          /\ initPc' \in { "failed", "binding" }]_vars

\* The first onModuleInit() failed at the binding and a chat() made then was
\* rejected; a second onModuleInit() succeeded and a later chat() returned.
C20_Witness ==
  /\ initCount = 2
  /\ initDone = 1
  /\ \E i, j \in Calls :
       /\ inv[i].phaseAtStart = "failed"
       /\ inv[i].error = NotInitialized
       /\ inv[j].phaseAtStart = "ready"
       /\ inv[j].pc = "returned"

====
